---- MODULE Spec2Model ----
(***************************************************************************)
(* A model of lib/disco/job.py: the Params bag, the JobDict job            *)
(* specification (construction, pack, unpack).                             *)
(*                                                                         *)
(* Python values are represented as follows.                               *)
(*   dict            a function whose DOMAIN is the set of stored keys     *)
(*   None / function the string "None" / a string naming the function     *)
(*   int-or-None     a sequence: <<>> is None, <<n>> is the integer n      *)
(*   str-or-list     a record [type |-> "str" | "list" | "dict", v |-> _]  *)
(*   URL             a record [scheme, loc, part]; url.startswith('dir://')*)
(*                   is scheme = "dir"                                     *)
(***************************************************************************)
EXTENDS Integers, Sequences, FiniteSets, TLC

VARIABLES op, kwargs, S, err, jobpack, payload, rawdecode, U, uerr,
          pop, bag, state, restored,
          hop, name, before, runs, sent, reply, attr, call, herr,
          jobs, refs, heap, packed, actor, sop, seen, nops

vars == <<op, kwargs, S, err, jobpack, payload, rawdecode, U, uerr,
          pop, bag, state, restored,
          hop, name, before, runs, sent, reply, attr, call, herr,
          jobs, refs, heap, packed, actor, sop, seen, nops>>

jobvars == <<op, kwargs, S, err, jobpack, payload, rawdecode, U, uerr>>
paramvars == <<pop, bag, state, restored>>
handlevars == <<hop, name, before, runs, sent, reply, attr, call, herr>>
sharedvars == <<jobs, refs, heap, packed, actor, sop, seen, nops>>

(* ------------------------------ bounds --------------------------------- *)

\* the user passes partitions in -1 .. MaxPartitions (or None, or nothing)
MaxPartitions == 2
\* the largest partition index (id) an index file of the environment holds
MaxId == 2

(* --------------------------- Python values ----------------------------- *)

EmptyDict == [k \in {} |-> TRUE]

None == "None"

PyStr(u) == [type |-> "str", v |-> u]
PyList(s) == [type |-> "list", v |-> s]
PyDict(f) == [type |-> "dict", v |-> f]

\* bool(x) of a str-or-list-or-dict value
Truthy(x) == IF x.type = "dict" THEN DOMAIN x.v # {} ELSE x.v # <<>>

\* bool(x) of an int-or-None value
IntTruthy(x) == x # <<>> /\ x[1] # 0

\* d[k] = v
SetItem(d, k, v) == [x \in DOMAIN d \cup {k} |-> IF x = k THEN v ELSE d[x]]

\* a.update(b) / dict(a, **b)
Update(a, b) == [x \in DOMAIN a \cup DOMAIN b |-> IF x \in DOMAIN b THEN b[x] ELSE a[x]]

RECURSIVE Concat(_)
Concat(ss) == IF ss = <<>> THEN <<>> ELSE Head(ss) \o Concat(Tail(ss))

SetMax(X) == CHOOSE m \in X : \A y \in X : y <= m

(* ------------------------------- URLs ---------------------------------- *)

Url(scheme, loc) == [scheme |-> scheme, loc |-> loc, part |-> -1]
PartUrl(loc, id) == [scheme |-> "disco", loc |-> loc, part |-> id]

startswith_dir(url) == url.scheme = "dir"

\* The result directories of the environment: directory "e" has an empty
\* index, directory "p0" holds partition 0, directory "pmax" holds the
\* partitions 0 .. MaxId.
DirIds(loc) ==
    CASE loc = "e" -> {}
      [] loc = "p0" -> {0}
      [] loc = "pmax" -> 0 .. MaxId
      [] OTHER -> {}

\* util.read_index(dir): the (id, url) lines of the index of a directory
read_index(dir) == { <<id, PartUrl(dir.loc, id)>> : id \in DirIds(dir.loc) }

\* util.urllist(i, listdirs, ddfs): an iterable is one entry of redundant
\* urls; a dir:// url is expanded to its partitions when listdirs is set;
\* any other url is the one entry
urllist(i, listdirs) ==
    IF i.type = "list" THEN << i >>
    ELSE IF startswith_dir(i.v) /\ listdirs
         THEN LET ids == DirIds(i.v.loc)
                  n == Cardinality(ids)
                  lo == IF n = 0 THEN 0 ELSE CHOOSE m \in ids : \A y \in ids : m <= y
              IN [j \in 1 .. n |-> PyStr(PartUrl(i.v.loc, lo + j - 1))]
         ELSE << i >>

\* list(util.iterify(url))
iterify(url) == IF url.type = "list" THEN url ELSE PyList(<< url.v >>)

(* ------------------------------- codec --------------------------------- *)

\* util.pack / util.unpack: the opaque object codec
util_pack(v) == <<"pickle", v>>
util_unpack(t) == t[2]

\* dencode.dumps / dencode.loads: the wire format
dencode_dumps(rec) == <<"dencode", rec>>
dencode_loads(bytes) == bytes[2]

\* util.pack_files(paths): name -> contents
pack_files(paths) ==
    [p \in {paths[i] : i \in DOMAIN paths} |-> <<"contents", p>>]

(* ------------------------------ JobDict -------------------------------- *)

\* int(2**31) exceeds the integers of the model checker; the largest one
\* stands for it (the value is only compared with 1)
DefaultMaxCores == 2147483647

DefaultStatusInterval == 100000

defaults ==
    [input |-> <<>>,
     jobhome |-> "worker.jobhome",
     worker |-> "DISCO_WORKER",
     map |-> None,
     map_init |-> "func.noop",
     map_reader |-> None,
     map_input_stream |-> << "func.map_input_stream" >>,
     map_output_stream |-> << "func.map_output_stream", "func.disco_output_stream" >>,
     combiner |-> None,
     partition |-> "func.default_partition",
     reduce |-> None,
     reduce_init |-> "func.noop",
     reduce_reader |-> "func.chain_reader",
     reduce_input_stream |-> << "func.reduce_input_stream" >>,
     reduce_output_stream |-> << "func.reduce_output_stream", "func.disco_output_stream" >>,
     ext_params |-> EmptyDict,
     merge_partitions |-> FALSE,
     nr_reduces |-> 0,
     params |-> EmptyDict,
     partitions |-> << 1 >>,
     prefix |-> "",
     profile |-> FALSE,
     required_files |-> PyDict(EmptyDict),
     required_modules |-> <<>>,
     scheduler |-> [force_local |-> FALSE,
                    force_remote |-> FALSE,
                    max_cores |-> DefaultMaxCores],
     save |-> FALSE,
     sort |-> FALSE,
     status_interval |-> DefaultStatusInterval,
     owner |-> "DISCO_JOB_OWNER",
     version |-> "2.6"]
    @@ ("map?" :> FALSE) @@ ("reduce?" :> FALSE)

master_keys == {"prefix", "input", "jobhome", "worker", "owner",
                "nr_reduces", "scheduler", "map?", "reduce?"}

\* the keys whose value is one function or None
funcs1 == {"map", "map_init", "map_reader", "combiner", "partition",
           "reduce", "reduce_init", "reduce_reader"}
\* the keys whose value is a chain of functions
funcsN == {"map_input_stream", "map_output_stream",
           "reduce_input_stream", "reduce_output_stream"}

\* self[key]: a missing key is looked up in the default table
Get(d, key) == IF key \in DOMAIN d THEN d[key] ELSE defaults[key]

\* key in self
Contains(key) == key \in DOMAIN defaults

NoJob == EmptyDict

Ok(d) == [err |-> "none", d |-> d]
Raise(e) == [err |-> e, d |-> NoJob]

\* DefaultDict.__init__ storing whatever it is given
DefaultDict_init_AcceptsAll(kw) == Ok(kw)

\* util.DefaultDict.__init__(**kwargs): the overrides are stored; a key
\* the default table does not hold is rejected
DefaultDict_init(kw) ==
    IF \A k \in DOMAIN kw : Contains(k)
    THEN Ok(kw)
    ELSE Raise("DiscoError: unknown option")

\* find_modules(funcs): the modules of the user's functions are shipped
\* with their source, the functions of disco.func need none
find_modules(fs) ==
    LET user == { f \in fs : f \in {"fun_map", "fun_reduce"} }
    IN IF user = {} THEN << >>
       ELSE << [name |-> "usermod", iskv |-> TRUE, path |-> "usermod.py"] >>

\* -- required modules and files --
RequiredModules(d) ==
    IF Get(d, "required_modules") = <<>>
    THEN LET all == { Get(d, f) : f \in funcs1 }
                    \cup UNION { { Get(d, f)[i] : i \in DOMAIN Get(d, f) } : f \in funcsN }
             callable == { f \in all : f # None }
         IN SetItem(d, "required_modules", << find_modules(callable) >>)
    ELSE d

\* -- input --
NormalizeInput(d) ==
    LET raw == Get(d, "input")
        listdirs == Get(d, "map") # None
        resolved == Concat([i \in DOMAIN raw |-> urllist(raw[i], listdirs)])
    IN SetItem(d, "input", [j \in DOMAIN resolved |-> iterify(resolved[j])])

\* JobDict.input_is_partitioned: None (false) for an empty input
input_is_partitioned(d) ==
    LET input == Get(d, "input")
    IN IF input # <<>>
       THEN \A i \in DOMAIN input :
              \A j \in DOMAIN input[i].v : startswith_dir(input[i].v[j])
       ELSE FALSE

\* partitions must be an integer internally
CoercePartitions(d) ==
    SetItem(d, "partitions",
            IF IntTruthy(Get(d, "partitions")) THEN Get(d, "partitions") ELSE << 0 >>)

\* the index of every url of every entry is read
IndexIds_AllUrls(d) ==
    LET input == Get(d, "input")
    IN UNION { UNION { { p[1] : p \in read_index(input[i].v[j]) } :
                         j \in DOMAIN input[i].v } : i \in DOMAIN input }

\* the ids read from the index of the first url of every input entry
IndexIds(d) ==
    LET input == Get(d, "input")
    IN UNION { { p[1] : p \in read_index(input[i].v[1]) } : i \in DOMAIN input }

\* a given nr_reduces is kept
SetNrReduces_UserWins(d) ==
    IF "nr_reduces" \in DOMAIN d
    THEN Ok(d)
    ELSE IF Get(d, "map") # None
         THEN Ok(SetItem(d, "nr_reduces",
                         IF IntTruthy(Get(d, "partitions")) THEN Get(d, "partitions")[1] ELSE 1))
         ELSE Ok(SetItem(d, "nr_reduces", 1))

\* set nr_reduces
SetNrReduces(d) ==
    IF Get(d, "map") # None
    THEN Ok(SetItem(d, "nr_reduces",
                    IF IntTruthy(Get(d, "partitions")) THEN Get(d, "partitions")[1] ELSE 1))
    ELSE IF input_is_partitioned(d)
         THEN IF IndexIds(d) = {}
              THEN Raise("ValueError: max() arg is an empty sequence")
              ELSE Ok(SetItem(d, "nr_reduces", 1 + SetMax(IndexIds(d))))
         ELSE Ok(SetItem(d, "nr_reduces", 1))

\* raise DiscoError(...): job.py binds no name DiscoError (lines 12-17 import
\* none, no statement defines one), so evaluating the expression raises
\* NameError at the line of the raise and the message is never built
MergeError == "NameError: global name 'DiscoError' is not defined (line 392)"
MaxCoresError == "NameError: global name 'DiscoError' is not defined (line 398)"
SubmitError == "NameError: global name 'DiscoError' is not defined (line 561)"

\* the check of merge_partitions left out
MergePartitions_NeverRaises(d) ==
    IF Get(d, "merge_partitions") THEN Ok(SetItem(d, "nr_reduces", 1)) ELSE Ok(d)

\* merge_partitions iff the inputs to reduce are partitioned
MergePartitions(d) ==
    IF Get(d, "merge_partitions")
    THEN IF IntTruthy(Get(d, "partitions")) \/ input_is_partitioned(d)
         THEN Ok(SetItem(d, "nr_reduces", 1))
         ELSE Raise(MergeError)
    ELSE Ok(d)

\* the update the wrong way round: the defaults win over the user's values
MergeScheduler_DefaultsWin(d) ==
    LET scheduler == Update(Get(d, "scheduler"), defaults["scheduler"])
    IN IF scheduler["max_cores"] < 1
       THEN Raise(MaxCoresError)
       ELSE Ok(SetItem(d, "scheduler", scheduler))

\* -- scheduler --
MergeScheduler(d) ==
    LET scheduler == Update(defaults["scheduler"], Get(d, "scheduler"))
    IN IF scheduler["max_cores"] < 1
       THEN Raise(MaxCoresError)
       ELSE Ok(SetItem(d, "scheduler", scheduler))

\* the flags are set only when the user gave none
JobFlow_KeepsGiven(d) ==
    LET d1 == IF "map?" \in DOMAIN d THEN d ELSE SetItem(d, "map?", Get(d, "map") # None)
    IN IF "reduce?" \in DOMAIN d1 THEN d1 ELSE SetItem(d1, "reduce?", Get(d1, "reduce") # None)

\* job flow
JobFlow(d) ==
    SetItem(SetItem(d, "map?", Get(d, "map") # None),
            "reduce?", Get(d, "reduce") # None)

\* JobDict.__init__(**kwargs)
JobDict_init(kw) ==
    LET r0 == DefaultDict_init(kw) IN
    IF r0.err # "none" THEN r0 ELSE
    LET r1 == SetNrReduces(CoercePartitions(NormalizeInput(RequiredModules(r0.d)))) IN
    IF r1.err # "none" THEN r1 ELSE
    LET r2 == MergePartitions(r1.d) IN
    IF r2.err # "none" THEN r2 ELSE
    LET r3 == MergeScheduler(r2.d) IN
    IF r3.err # "none" THEN r3 ELSE
    Ok(JobFlow(r3.d))

\* the files pack() adds for the required modules that carry their source
ModuleFiles(d) ==
    LET mods == Get(d, "required_modules")[1]
        kv == SelectSeq(mods, LAMBDA o : o.iskv)
    IN pack_files([i \in DOMAIN kv |-> kv[i].path])

\* JobDict.pack(): the job specification as pack() leaves it
pack_self(d) ==
    LET files == Get(d, "required_files")
        d1 == IF Truthy(files)
              THEN IF files.type # "dict"
                   THEN SetItem(d, "required_files", PyDict(pack_files(files.v)))
                   ELSE d
              ELSE SetItem(d, "required_files", PyDict(EmptyDict))
    IN SetItem(d1, "required_files",
               PyDict(Update(Get(d1, "required_files").v, ModuleFiles(d1))))

\* the transparent keys read from the default table instead of from self
pack_TransparentFromDefaults(d) ==
    LET self == pack_self(d)
    IN dencode_dumps([key \in DOMAIN defaults |->
                        IF key \notin master_keys
                        THEN util_pack(Get(self, key))
                        ELSE defaults[key]])

\* JobDict.pack(): the bytes sent over the wire
pack(d) ==
    LET self == pack_self(d)
    IN dencode_dumps([key \in DOMAIN defaults |->
                        IF key \notin master_keys
                        THEN util_pack(Get(self, key))
                        ELSE Get(self, key)])

\* what util.unpack does with a value that is no codec token (a default the
\* payload left in place, line 435): it hands the value back, or it fails
RawDecodeOutcomes == { "passes", "raises" }

\* the opaque keys the record does not hold
RawKeys(rec) == (DOMAIN defaults \ master_keys) \ DOMAIN rec

\* unpack where a default left in place is never handed to util.unpack
unpack_DefaultsNotDecoded(bytes, outcome) ==
    LET rec == dencode_loads(bytes)
        jobdict == Update(defaults, rec)
    IN JobDict_init([key \in DOMAIN jobdict |->
                       IF key \notin master_keys /\ key \notin RawKeys(rec)
                       THEN util_unpack(jobdict[key])
                       ELSE jobdict[key]])

\* JobDict.unpack(jobpack): the payload is laid over the default table, every
\* opaque key is decoded, a default left in place included, and the
\* specification is constructed again
unpack(bytes, outcome) ==
    LET rec == dencode_loads(bytes)
        jobdict == Update(defaults, rec)
    IN IF RawKeys(rec) # {} /\ outcome = "raises"
       THEN Raise("ValueError: Could not unpack")
       ELSE JobDict_init([key \in DOMAIN jobdict |->
                            IF key \notin master_keys /\ key \notin RawKeys(rec)
                            THEN util_unpack(jobdict[key])
                            ELSE jobdict[key]])

(* ------------------------------- Params -------------------------------- *)

\* k.startswith('_'), a name being the sequence of its characters
startswith_underscore(k) == Len(k) >= 1 /\ k[1] = "_"

\* Params.__init__(**kwargs)
Params_init(kw) == Update(EmptyDict, kw)

\* every name is captured, the private ones too
Params_getstate_All(dict) == [k \in DOMAIN dict |-> util_pack(dict[k])]

\* Params.__getstate__()
Params_getstate(dict) ==
    [k \in { n \in DOMAIN dict : ~startswith_underscore(n) } |-> util_pack(dict[k])]

\* Params.__setstate__(state)
Params_setstate(dict, st) ==
    Update(dict, [k \in DOMAIN st |-> util_unpack(st[k])])

(* --------------------------- the user's inputs ------------------------- *)

Http(loc) == PyStr(Url("http", loc))
Dir(loc) == PyStr(Url("dir", loc))
Redundant(schemeA, a, schemeB, b) == PyList(<< Url(schemeA, a), Url(schemeB, b) >>)

InputOptions ==
    { EmptyDict } \cup
    { [input |-> i] : i \in
        { << Http("x") >>,
          << Dir("p0") >>,
          << Dir("pmax") >>,
          << Dir("e") >>,
          << Dir("p0"), Dir("pmax") >>,
          << Redundant("dir", "p0", "dir", "pmax") >>,
          << Redundant("dir", "pmax", "dir", "p0") >>,
          << Redundant("dir", "e", "dir", "pmax") >>,
          << Dir("p0"), Http("x") >>,
          << Http("x"), Redundant("http", "y1", "http", "y2") >> } }

MapOptions == { EmptyDict, [map |-> "fun_map"] }

PartitionsOptions ==
    { EmptyDict, [partitions |-> <<>>] }
    \cup { [partitions |-> << n >>] : n \in -1 .. MaxPartitions }

MergeOptions == { EmptyDict, [merge_partitions |-> TRUE] }

SchedulerOptions ==
    { EmptyDict,
      [scheduler |-> [max_cores |-> 0]],
      [scheduler |-> [max_cores |-> 1]],
      [scheduler |-> [force_local |-> TRUE]] }

FlowOptions ==
    { EmptyDict,
      [reduce |-> "fun_reduce"],
      ("map?" :> TRUE) @@ [prefix |-> "job", owner |-> "me"],
      ("map?" :> FALSE) @@ ("reduce?" :> TRUE) @@ [jobhome |-> "home", worker |-> "w"],
      ("reduce?" :> FALSE) @@ [reduce |-> "fun_reduce"] }

OtherOptions ==
    { EmptyDict,
      [nr_reduces |-> 0],
      [bogus |-> 1],
      [required_files |-> PyList(<< "a.txt" >>)] }

Kwargs ==
    { a @@ b @@ c @@ d @@ e @@ f @@ g :
        a \in MapOptions, b \in PartitionsOptions, c \in MergeOptions,
        d \in InputOptions, e \in SchedulerOptions, f \in FlowOptions,
        g \in OtherOptions }

\* the payloads handed to unpack: the packed bytes, or the packed bytes
\* with one field overwritten on the way
Forged(bytes) ==
    LET rec == dencode_loads(bytes)
    IN { dencode_dumps(SetItem(rec, "nr_reduces", 0)),
         dencode_dumps(SetItem(rec, "scheduler", SetItem(rec["scheduler"], "max_cores", 0))),
         dencode_dumps(SetItem(rec, "merge_partitions", util_pack(TRUE))),
         dencode_dumps(SetItem(rec, "map?", ~rec["map?"])) }

\* the keys a payload leaves out
OmitSets ==
    { { "nr_reduces" }, { "map?", "reduce?" }, { "prefix", "scheduler" },
      { "input" }, { "sort", "partitions" }, { "map" },
      { "required_modules", "params" } }

\* the packed bytes with some keys left out
Partial(bytes) ==
    LET rec == dencode_loads(bytes)
    IN { dencode_dumps([key \in DOMAIN rec \ ks |-> rec[key]]) : ks \in OmitSets }

\* the outcomes of decoding the defaults a payload leaves in place
Outcomes(bytes) ==
    IF RawKeys(dencode_loads(bytes)) = {} THEN { "unused" } ELSE RawDecodeOutcomes

\* the values and names of a Params bag
MaxValue == 2
ParamNames == { << "a" >>, << "b" >>, << "_", "h" >>, << "c", "_" >> }
ParamKwargs == UNION { [names -> 1 .. MaxValue] : names \in SUBSET ParamNames }

(* ------------------------ objects and references ----------------------- *)

\* the operations on the two specifications the model follows
MaxOps == 3

\* two specifications, constructed separately
Instances == { "A", "B" }
Other(X) == IF X = "A" THEN "B" ELSE "A"

\* the keys whose value is an object that can be changed in place
MutableKeys == { "params", "required_files", "scheduler" }

\* the objects the class attribute defaults holds, made once
DefaultRef ==
    [params |-> "defaults.params",
     required_files |-> "defaults.required_files",
     scheduler |-> "defaults.scheduler"]

\* the objects a user makes: a bag and a dict for each specification, and
\* one bag handed to whoever asks for it
UserParams == [A |-> "user.A.params", B |-> "user.B.params"]
UserFiles == [A |-> "user.A.files", B |-> "user.B.files"]
UserSharedParams == "user.params"

\* the objects __init__ and pack make
SchedulerRef == [A |-> "A.scheduler", B |-> "B.scheduler"]
FilesRef == [A |-> "A.required_files", B |-> "B.required_files"]

InitialHeap ==
    ("defaults.params" :> EmptyDict)
    @@ ("defaults.required_files" :> EmptyDict)
    @@ ("defaults.scheduler" :> defaults["scheduler"])
    @@ ("user.params" :> EmptyDict)
    @@ ("user.A.params" :> EmptyDict) @@ ("user.B.params" :> EmptyDict)
    @@ ("user.A.files" :> [g |-> "data"]) @@ ("user.B.files" :> [g |-> "data"])
    @@ ("A.scheduler" :> EmptyDict) @@ ("B.scheduler" :> EmptyDict)
    @@ ("A.required_files" :> EmptyDict) @@ ("B.required_files" :> EmptyDict)

\* the keyword arguments of a construction: the values, and the objects given
BuildOptions(X) ==
    { [kw |-> EmptyDict, given |-> EmptyDict],
      [kw |-> [map |-> "fun_map"], given |-> EmptyDict],
      [kw |-> [reduce |-> "fun_reduce"], given |-> [params |-> UserParams[X]]],
      [kw |-> EmptyDict, given |-> [params |-> UserSharedParams]],
      [kw |-> [map |-> "fun_map"], given |-> [required_files |-> UserFiles[X]]] }

\* nothing observed yet
NoView == [fields |-> EmptyDict, bytes |-> dencode_dumps(EmptyDict)]

(* ------------------------------ behaviour ------------------------------ *)

NoBytes == dencode_dumps(EmptyDict)
NoReply == [status |-> "", response |-> ""]
NoCall == << >>

Init ==
    /\ op = "start"
    /\ kwargs = EmptyDict
    /\ S = NoJob
    /\ err = "none"
    /\ jobpack = NoBytes
    /\ payload = NoBytes
    /\ rawdecode = "unused"
    /\ U = NoJob
    /\ uerr = "none"
    /\ pop = "start"
    /\ bag = EmptyDict
    /\ state = EmptyDict
    /\ restored = EmptyDict
    /\ hop = "start"
    /\ name = ""
    /\ before = ""
    /\ runs = 0
    /\ sent = NoBytes
    /\ reply = NoReply
    /\ attr = ""
    /\ call = NoCall
    /\ herr = "none"
    /\ jobs = [X \in Instances |-> NoJob]
    /\ refs = [X \in Instances |-> EmptyDict]
    /\ heap = InitialHeap
    /\ packed = [X \in Instances |-> NoBytes]
    /\ actor = "none"
    /\ sop = "start"
    /\ seen = NoView
    /\ nops = 0

\* JobDict(**kw)
Construct ==
    /\ op = "start"
    /\ \E kw \in Kwargs :
         LET r == JobDict_init(kw)
         IN /\ kwargs' = kw
            /\ S' = r.d
            /\ err' = r.err
    /\ op' = "new"
    /\ UNCHANGED <<jobpack, payload, rawdecode, U, uerr>>
    /\ UNCHANGED paramvars
    /\ UNCHANGED handlevars
    /\ UNCHANGED sharedvars

\* S.pack()
Pack ==
    /\ op = "new"
    /\ err = "none"
    /\ S' = pack_self(S)
    /\ jobpack' = pack(S)
    /\ op' = "pack"
    /\ UNCHANGED <<kwargs, err, payload, rawdecode, U, uerr>>
    /\ UNCHANGED paramvars
    /\ UNCHANGED handlevars
    /\ UNCHANGED sharedvars

\* JobDict.unpack(p)
Unpack ==
    /\ op = "pack"
    /\ \E p \in { jobpack } \cup Forged(jobpack) \cup Partial(jobpack) :
         \E outcome \in Outcomes(p) :
         LET r == unpack(p, outcome)
         IN /\ payload' = p
            /\ rawdecode' = outcome
            /\ U' = r.d
            /\ uerr' = r.err
    /\ op' = "unpack"
    /\ UNCHANGED <<kwargs, S, err, jobpack>>
    /\ UNCHANGED paramvars
    /\ UNCHANGED handlevars
    /\ UNCHANGED sharedvars

Next == Construct \/ Pack \/ Unpack

Spec == Init /\ [][Next]_vars

\* Params(**kw)
NewParams ==
    /\ pop = "start"
    /\ \E kw \in ParamKwargs : bag' = Params_init(kw)
    /\ pop' = "init"
    /\ UNCHANGED <<state, restored>>
    /\ UNCHANGED jobvars
    /\ UNCHANGED handlevars
    /\ UNCHANGED sharedvars

\* capture: bag.__getstate__()
Capture ==
    /\ pop = "init"
    /\ state' = Params_getstate(bag)
    /\ pop' = "getstate"
    /\ UNCHANGED <<bag, restored>>
    /\ UNCHANGED jobvars
    /\ UNCHANGED handlevars
    /\ UNCHANGED sharedvars

\* restore: __setstate__(state) on a new, empty bag
Restore ==
    /\ pop = "getstate"
    /\ restored' = Params_setstate(EmptyDict, state)
    /\ pop' = "setstate"
    /\ UNCHANGED <<bag, state>>
    /\ UNCHANGED jobvars
    /\ UNCHANGED handlevars
    /\ UNCHANGED sharedvars

ParamsNext == NewParams \/ Capture \/ Restore

ParamsSpec == Init /\ [][ParamsNext]_vars

(* ----------------------------- Job handle ------------------------------ *)

proxy_functions == { "clean", "events", "kill", "jobinfo", "jobspec", "oob_get",
                     "oob_list", "profile_stats", "purge", "results",
                     "mapresults", "wait" }

\* the runs of one handle the model follows
MaxRuns == 2

\* the names a handle is created with, and the names the master assigns
HandleNames == { "job", "old@7" }
AssignedNames == { "job@1", "job@2" }

\* json.loads(master.request('/disco/job/new', jobpack)): [status, response]
Replies ==
    { [status |-> "ok", response |-> n] : n \in AssignedNames }
    \cup { [status |-> "error", response |-> "invalid prefix"] }

\* the keyword arguments given to run()
RunKwargs ==
    { EmptyDict,
      [map |-> "fun_map"],
      [merge_partitions |-> TRUE, partitions |-> << 0 >>],
      [prefix |-> "mine"] }

\* the attributes looked up on a handle
Attrs == proxy_functions \cup { "name", "status", "map" }

\* Job.__getattr__(attr), called: partial(getattr(self.master, attr), self.name)()
Job_getattr(self, a) ==
    IF a \in proxy_functions
    THEN [err |-> "none", call |-> << a, self >>]
    ELSE [err |-> "AttributeError", call |-> NoCall]

\* Job.JobDict(self, prefix=self.name, ddfs=self.master.master, **kwargs):
\* a second prefix among the keyword arguments is a TypeError of the call;
\* default_factory asks the job for a missing key first, and no key of the
\* default table is an attribute of a Job, so every missing key is the default
Job_JobDict(self, kw) ==
    IF "prefix" \in DOMAIN kw
    THEN Raise("TypeError: got multiple values for keyword argument 'prefix'")
    ELSE JobDict_init(kw @@ [prefix |-> self])

\* Job.run(**kwargs), the master replying rep
Job_run(self, kw, rep) ==
    LET r == Job_JobDict(self, kw)
    IN IF r.err # "none"
       THEN [err |-> r.err, sent |-> NoBytes, name |-> self]
       ELSE IF rep.status # "ok"
            THEN [err |-> SubmitError, sent |-> pack(r.d), name |-> self]
            ELSE [err |-> "none", sent |-> pack(r.d), name |-> rep.response]

\* Job(master, n)
NewJob ==
    /\ hop = "start"
    /\ \E n \in HandleNames : name' = n /\ before' = n
    /\ hop' = "new"
    /\ UNCHANGED <<runs, sent, reply, attr, call, herr>>
    /\ UNCHANGED jobvars
    /\ UNCHANGED paramvars
    /\ UNCHANGED sharedvars

\* job.run(**kw)
Run ==
    /\ hop # "start"
    /\ runs < MaxRuns
    /\ \E kw \in RunKwargs, rep \in Replies :
         LET r == Job_run(name, kw, rep)
         IN /\ name' = r.name
            /\ sent' = r.sent
            /\ herr' = r.err
            /\ reply' = IF r.sent = NoBytes THEN NoReply ELSE rep
    /\ before' = name
    /\ runs' = runs + 1
    /\ hop' = "run"
    /\ UNCHANGED <<attr, call>>
    /\ UNCHANGED jobvars
    /\ UNCHANGED paramvars
    /\ UNCHANGED sharedvars

\* job.<a>(...)
Forward ==
    /\ hop # "start"
    /\ \E a \in Attrs :
         LET r == IF a = "name"
                  THEN [err |-> "none", call |-> NoCall]
                  ELSE Job_getattr(name, a)
         IN /\ attr' = a
            /\ call' = r.call
            /\ herr' = r.err
    /\ before' = name
    /\ hop' = "call"
    /\ UNCHANGED <<name, runs, sent, reply>>
    /\ UNCHANGED jobvars
    /\ UNCHANGED paramvars
    /\ UNCHANGED sharedvars

HandleNext == NewJob \/ Run \/ Forward

HandleSpec == Init /\ [][HandleNext]_vars

(* ------------------------ shared default objects ------------------------ *)

\* self[key] for a key holding an object: the object stored under the key,
\* else default_factory(key) = defaults.__getitem__(key), the object of the
\* class attribute itself
FieldRef(X, key) ==
    IF key \in DOMAIN refs[X] THEN refs[X][key] ELSE DefaultRef[key]

\* the value of an object as a field value
FieldValue(key, v) == IF key = "required_files" THEN PyDict(v) ELSE v

\* the field values read from a specification
View(X) ==
    [key \in DOMAIN defaults |->
        IF key \in MutableKeys
        THEN FieldValue(key, heap[FieldRef(X, key)])
        ELSE Get(jobs[X], key)]

\* what is read from, and packed from, a specification
Observed(X) ==
    IF jobs[X] = NoJob THEN NoView
    ELSE [fields |-> View(X), bytes |-> pack(View(X))]

\* X = JobDict(**kw): the scheduler is a copy made for X (lines 395-399), a
\* given object is stored as it is, nothing is stored for the other keys
BuildJob ==
    \E X \in Instances :
      /\ jobs[X] = NoJob
      /\ \E o \in BuildOptions(X) :
           LET values == [key \in DOMAIN o.given |->
                            FieldValue(key, heap[o.given[key]])]
               r == JobDict_init(o.kw @@ values)
           IN /\ r.err = "none"
              /\ jobs' = [jobs EXCEPT ![X] = r.d]
              /\ refs' = [refs EXCEPT ![X] = o.given @@ [scheduler |-> SchedulerRef[X]]]
              /\ heap' = [heap EXCEPT ![SchedulerRef[X]] = r.d["scheduler"]]
      /\ seen' = Observed(Other(X))
      /\ actor' = X
      /\ sop' = "new"
      /\ UNCHANGED <<packed, nops>>
      /\ UNCHANGED jobvars
      /\ UNCHANGED paramvars
      /\ UNCHANGED handlevars

\* X['params'].c = v
SetParam ==
    \E X \in Instances, v \in 1 .. MaxValue :
      /\ jobs[X] # NoJob
      /\ nops < MaxOps
      /\ nops' = nops + 1
      /\ heap' = [heap EXCEPT ![FieldRef(X, "params")] = SetItem(@, "c", v)]
      /\ seen' = Observed(Other(X))
      /\ actor' = X
      /\ sop' = "params"
      /\ UNCHANGED <<jobs, refs, packed>>
      /\ UNCHANGED jobvars
      /\ UNCHANGED paramvars
      /\ UNCHANGED handlevars

\* X['required_files']['f'] = 'data'
SetFile ==
    \E X \in Instances :
      /\ jobs[X] # NoJob
      /\ nops < MaxOps
      /\ nops' = nops + 1
      /\ heap' = [heap EXCEPT ![FieldRef(X, "required_files")] = SetItem(@, "f", "data")]
      /\ seen' = Observed(Other(X))
      /\ actor' = X
      /\ sop' = "required_files"
      /\ UNCHANGED <<jobs, refs, packed>>
      /\ UNCHANGED jobvars
      /\ UNCHANGED paramvars
      /\ UNCHANGED handlevars

\* X['scheduler']['max_cores'] = v
SetScheduler ==
    \E X \in Instances, v \in 1 .. MaxValue :
      /\ jobs[X] # NoJob
      /\ nops < MaxOps
      /\ nops' = nops + 1
      /\ heap' = [heap EXCEPT ![FieldRef(X, "scheduler")] = SetItem(@, "max_cores", v)]
      /\ seen' = Observed(Other(X))
      /\ actor' = X
      /\ sop' = "scheduler"
      /\ UNCHANGED <<jobs, refs, packed>>
      /\ UNCHANGED jobvars
      /\ UNCHANGED paramvars
      /\ UNCHANGED handlevars

\* X.pack(): a required_files that is empty is replaced by a new dict stored
\* in X (line 416), one that is not is kept; the files of the modules are
\* added to that object in place (lines 417-418)
PackJob ==
    \E X \in Instances :
      /\ jobs[X] # NoJob
      /\ nops < MaxOps
      /\ nops' = nops + 1
      /\ LET self == View(X)
             target == IF Truthy(self["required_files"])
                       THEN FieldRef(X, "required_files")
                       ELSE FilesRef[X]
         IN /\ refs' = IF Truthy(self["required_files"])
                      THEN refs
                      ELSE [refs EXCEPT ![X] = SetItem(@, "required_files", target)]
            /\ heap' = [heap EXCEPT ![target] = pack_self(self)["required_files"].v]
            /\ packed' = [packed EXCEPT ![X] = pack(self)]
      /\ seen' = Observed(Other(X))
      /\ actor' = X
      /\ sop' = "pack"
      /\ UNCHANGED jobs
      /\ UNCHANGED jobvars
      /\ UNCHANGED paramvars
      /\ UNCHANGED handlevars

SharedNext == BuildJob \/ SetParam \/ SetFile \/ SetScheduler \/ PackJob

SharedSpec == Init /\ [][SharedNext]_vars

(* ------------------------------- claims -------------------------------- *)

\* what the payload holds
PayloadRec == dencode_loads(payload)
\* the payload holds every key of the default table
PayloadComplete == DOMAIN PayloadRec = DOMAIN defaults
\* the keys the payload leaves out
Omitted == DOMAIN defaults \ DOMAIN PayloadRec
\* the value of an opaque key after the overlay and the decoding
Decoded(key) ==
    IF key \in DOMAIN PayloadRec THEN util_unpack(PayloadRec[key]) ELSE defaults[key]

\* the job specification of the last construction, when it succeeded
Built == op # "start" /\ err = "none"

\* the partitions the user asked for: None when nothing or None was given
AskedPartitions == IF "partitions" \in DOMAIN kwargs THEN kwargs["partitions"] ELSE <<>>

\* the partitions in force: the default when nothing was given, 0 for None
PartitionsInForce ==
    IF "partitions" \notin DOMAIN kwargs THEN defaults["partitions"][1]
    ELSE IF kwargs["partitions"] = <<>> THEN 0 ELSE kwargs["partitions"][1]

MapGiven == Get(kwargs, "map") # None
ReduceGiven == Get(kwargs, "reduce") # None
MergeAsked == Get(kwargs, "merge_partitions")

\* the urls of a raw input entry
EntryUrls(e) == IF e.type = "list" THEN { e.v[j] : j \in DOMAIN e.v } ELSE { e.v }
EntryFirstUrl(e) == IF e.type = "list" THEN e.v[1] ELSE e.v

RawInput == Get(kwargs, "input")
AllUrls == UNION { EntryUrls(RawInput[i]) : i \in DOMAIN RawInput }
FirstUrls == { EntryFirstUrl(RawInput[i]) : i \in DOMAIN RawInput }
FullyPartitioned == RawInput # <<>> /\ \A u \in AllUrls : u.scheme = "dir"
IdsOf(urls) == UNION { DirIds(u.loc) : u \in urls }

\* C1: every construction that succeeds yields nr_reduces >= 1
C1_NrReducesAtLeastOne ==
    Built => Get(S, "nr_reduces") >= 1

\* C2: with a map function and no merge_partitions, nr_reduces is P for
\* partitions = P > 0 and 1 for partitions unset (absent or None) or 0,
\* whatever nr_reduces the user gave
C2_MapDrivesNrReduces ==
    (Built /\ MapGiven /\ ~MergeAsked) =>
        /\ (AskedPartitions # <<>> /\ AskedPartitions[1] > 0)
              => Get(S, "nr_reduces") = AskedPartitions[1]
        /\ (AskedPartitions = <<>> \/ AskedPartitions[1] = 0)
              => Get(S, "nr_reduces") = 1

C2_Witness ==
    /\ Built /\ MapGiven /\ ~MergeAsked
    /\ AskedPartitions = << MaxPartitions >>
    /\ "nr_reduces" \in DOMAIN kwargs
    /\ Get(S, "nr_reduces") = MaxPartitions

\* C3 as stated: reduce only, no merge, fully partitioned input: nr_reduces
\* is k + 1, k the largest partition index in the index of every url of
\* every input entry
C3_MaxOverAllUrls ==
    (Built /\ ~MapGiven /\ ~MergeAsked /\ FullyPartitioned) =>
        /\ IdsOf(AllUrls) # {}
        /\ Get(S, "nr_reduces") = 1 + SetMax(IdsOf(AllUrls))

\* C3 as amended: reduce only, no merge, fully partitioned input: a
\* construction that succeeds sets nr_reduces to k + 1, k the largest
\* partition index in the index of the first url of every input entry
C3_MaxOverFirstUrls ==
    (Built /\ ~MapGiven /\ ~MergeAsked /\ FullyPartitioned) =>
        /\ IdsOf(FirstUrls) # {}
        /\ Get(S, "nr_reduces") = 1 + SetMax(IdsOf(FirstUrls))

C3_Witness ==
    /\ Built /\ ~MapGiven /\ ~MergeAsked /\ FullyPartitioned
    /\ RawInput = << Redundant("dir", "p0", "dir", "pmax") >>
    /\ Get(S, "nr_reduces") = 1

\* input_is_partitioned of the input the user gave, once normalized
InputIsPartitioned == input_is_partitioned(NormalizeInput(kwargs))

\* C4: with merge_partitions requested, and nothing else of the options at
\* fault, construction succeeds iff partitions > 0 or input_is_partitioned;
\* when it succeeds nr_reduces is 1, when it does not it fails with the
\* configuration error of merge_partitions
C4_MergeIffPartitioned ==
    (/\ op # "start"
     /\ MergeAsked
     /\ err \in { "none", MergeError }) =>
        /\ (err = "none") <=> (PartitionsInForce > 0 \/ InputIsPartitioned)
        /\ err = "none" => Get(S, "nr_reduces") = 1
        /\ err # "none" => S = NoJob

\* the scheduler the claim expects: the user's value per key, else the default
UserScheduler == Get(kwargs, "scheduler")
ExpectedScheduler(k) ==
    IF k \in DOMAIN UserScheduler THEN UserScheduler[k] ELSE defaults["scheduler"][k]
SchedulerKeys == { "force_local", "force_remote", "max_cores" }

\* C5: the user's scheduler is merged onto the default policy, the user's
\* value winning per key; construction fails if the merged max_cores is
\* < 1 and does not fail for max_cores otherwise; every constructed
\* specification has the three scheduler keys and max_cores >= 1
C5_SchedulerMerged ==
    op # "start" =>
        /\ err = "none" =>
              /\ SchedulerKeys \subseteq DOMAIN S["scheduler"]
              /\ \A k \in SchedulerKeys : S["scheduler"][k] = ExpectedScheduler(k)
              /\ S["scheduler"]["max_cores"] >= 1
        /\ ExpectedScheduler("max_cores") < 1 => err # "none"
        /\ ExpectedScheduler("max_cores") >= 1 => err # MaxCoresError

C5_Witness ==
    /\ Built
    /\ "scheduler" \in DOMAIN kwargs
    /\ DOMAIN kwargs["scheduler"] = { "force_local" }
    /\ S["scheduler"]["force_local"] = TRUE
    /\ S["scheduler"]["max_cores"] = DefaultMaxCores

\* C6: in every specification construction or unpack returns, 'map?' is
\* the presence of a map function and 'reduce?' that of a reduce function,
\* whatever flags the user or the payload gave
C6_FlowFlagsDerived ==
    /\ Built =>
          /\ S["map?"] = MapGiven
          /\ S["reduce?"] = ReduceGiven
    /\ (op = "unpack" /\ uerr = "none") =>
          /\ U["map?"] = (Decoded("map") # None)
          /\ U["reduce?"] = (Decoded("reduce") # None)

C6_Witness ==
    /\ Built
    /\ "map?" \in DOMAIN kwargs
    /\ kwargs["map?"] # S["map?"]
    /\ op = "unpack" /\ uerr = "none"
    /\ PayloadComplete
    /\ dencode_loads(payload)["map?"] # U["map?"]

\* C7: construction rejects an option key the default table does not hold:
\* it fails with a configuration error and returns no specification
C7_UnknownKeyRejected ==
    /\ (op # "start" /\ \E k \in DOMAIN kwargs : k \notin DOMAIN defaults) =>
          /\ err = "DiscoError: unknown option"
          /\ S = NoJob
    /\ DOMAIN S \subseteq DOMAIN defaults

C7_Witness ==
    /\ op = "new"
    /\ "bogus" \in DOMAIN kwargs
    /\ err = "DiscoError: unknown option"

\* C8: a specification built with transparent-key overrides only is
\* unpacked from its packed bytes without error and equal on every
\* recognized key
C8_RoundTrip ==
    (op = "unpack" /\ payload = jobpack /\ DOMAIN kwargs \subseteq master_keys) =>
        /\ uerr = "none"
        /\ \A k \in DOMAIN defaults : Get(U, k) = Get(S, k)

C8_Witness ==
    /\ op = "unpack" /\ payload = jobpack
    /\ DOMAIN kwargs \subseteq master_keys
    /\ { "input", "scheduler", "prefix" } \subseteq DOMAIN kwargs
    /\ uerr = "none"
    /\ Get(U, "nr_reduces") = 1 + MaxId
    /\ Get(U, "prefix") = "job"

PayloadPartitions == util_unpack(PayloadRec["partitions"])
PayloadMerge == util_unpack(PayloadRec["merge_partitions"])
PayloadPartitioned ==
    /\ PayloadRec["input"] # <<>>
    /\ \A i \in DOMAIN PayloadRec["input"] :
          \A u \in EntryUrls(PayloadRec["input"][i]) : u.scheme = "dir"
PayloadViolates ==
    \/ PayloadRec["nr_reduces"] < 1
    \/ PayloadRec["scheduler"]["max_cores"] < 1
    \/ PayloadMerge /\ PayloadPartitions[1] = 0 /\ ~PayloadPartitioned
    \/ PayloadRec["map?"] # (util_unpack(PayloadRec["map"]) # None)
    \/ PayloadRec["reduce?"] # (util_unpack(PayloadRec["reduce"]) # None)

\* C9 as stated (for payloads whose partitions are not negative): unpack
\* rejects a payload whose record violates an invariant: nr_reduces < 1,
\* max_cores < 1, merge_partitions without partitions or partitioned
\* input, a flag that disagrees with the presence of its function
C9_UnpackRejectsViolations ==
    (op = "unpack" /\ PayloadComplete /\ PayloadPartitions[1] >= 0 /\ PayloadViolates)
        => uerr # "none"

\* the payload with nr_reduces and the two flags set back to the defaults
Scrubbed ==
    dencode_dumps(Update(PayloadRec,
        ("nr_reduces" :> defaults["nr_reduces"])
        @@ ("map?" :> defaults["map?"]) @@ ("reduce?" :> defaults["reduce?"])))

\* C9 as amended: unpack constructs the specification again from the
\* decoded record: it rejects a payload whose max_cores is < 1 or that
\* asks for merge_partitions with partitions 0 and an input that is not
\* partitioned; the nr_reduces and the flags of the payload are ignored,
\* the result being that of the payload without them
C9_UnpackConstructsAgain ==
    (op = "unpack" /\ PayloadComplete) =>
        /\ PayloadRec["scheduler"]["max_cores"] < 1 => uerr # "none"
        /\ (PayloadMerge /\ PayloadPartitions[1] = 0 /\ ~PayloadPartitioned)
              => uerr # "none"
        /\ uerr = unpack(Scrubbed, rawdecode).err
        /\ U = unpack(Scrubbed, rawdecode).d

C9_Witness ==
    /\ op = "unpack"
    /\ PayloadComplete
    /\ PayloadRec["nr_reduces"] = 0
    /\ uerr = "none"
    /\ U["nr_reduces"] >= 1

\* the names of the bag that are not private
PublicNames == { n \in DOMAIN bag : Head(n) # "_" }

\* C10: capture yields exactly the names that do not start with '_', each
\* with the codec encoding of its value; restoring the capture into an
\* empty bag yields exactly those names with the original values
C10_CaptureRestore ==
    /\ pop \in { "getstate", "setstate" } =>
          /\ DOMAIN state = PublicNames
          /\ \A n \in PublicNames : state[n] = util_pack(bag[n])
    /\ pop = "setstate" =>
          /\ DOMAIN restored = PublicNames
          /\ \A n \in PublicNames : restored[n] = bag[n]

C10_Witness ==
    /\ pop = "setstate"
    /\ { << "a" >>, << "_", "h" >>, << "c", "_" >> } \subseteq DOMAIN bag
    /\ DOMAIN restored = { << "a" >>, << "c", "_" >> }
    /\ restored[<< "a" >>] = MaxValue

\* C12 as stated: unpacking a payload that leaves out some keys succeeds,
\* each key left out has its default value in the result, and each opaque
\* key the payload holds has its decoded value
C12_OmittedKeysKeepDefaults ==
    (op = "unpack" /\ Omitted # {}) =>
        /\ uerr = "none"
        /\ \A k \in Omitted : U[k] = defaults[k]
        /\ \A k \in DOMAIN PayloadRec \ master_keys : U[k] = util_unpack(PayloadRec[k])

\* the keys construction computes whatever it is given
DerivedKeys == { "input", "nr_reduces", "map?", "reduce?", "required_modules" }

\* C12 as amended: unpack lays the record over the default table and
\* constructs the specification again. A payload that leaves out only
\* nr_reduces, the flags, the prefix or the scheduler unpacks; where unpack
\* succeeds, a key left out has its default value unless construction
\* derives it (the input is the empty list, nr_reduces is not its default 0,
\* each flag tells whether its function is there, required_modules is
\* computed), and an opaque key the payload holds has its decoded value.
\* The default of an opaque key left out is decoded like a token: unpack
\* fails where the codec rejects a value that is no token
C12_UnpackOverlaysDefaults ==
    (op = "unpack" /\ Omitted # {}) =>
        /\ Omitted \subseteq { "nr_reduces", "map?", "reduce?", "prefix", "scheduler" }
              => uerr = "none"
        /\ (Omitted \ master_keys # {} /\ rawdecode = "raises") => uerr # "none"
        /\ uerr = "none" =>
              /\ \A k \in Omitted \ DerivedKeys : U[k] = defaults[k]
              /\ "input" \in Omitted => U["input"] = <<>>
              /\ "nr_reduces" \in Omitted => U["nr_reduces"] # defaults["nr_reduces"]
              /\ "map?" \in Omitted => U["map?"] = (Decoded("map") # None)
              /\ "reduce?" \in Omitted => U["reduce?"] = (Decoded("reduce") # None)
              /\ "required_modules" \in Omitted =>
                    U["required_modules"] # defaults["required_modules"]
              /\ \A k \in DOMAIN PayloadRec \ master_keys :
                    U[k] = util_unpack(PayloadRec[k])

C12_Witness ==
    /\ op = "unpack"
    /\ Omitted = { "map?", "reduce?" }
    /\ uerr = "none"
    /\ U["map"] = "fun_map"
    /\ U["map?"] # defaults["map?"]
    /\ U["reduce?"] = defaults["reduce?"]

\* the operations the claim lists as forwarded
ForwardedOperations ==
    { "clean", "events", "kill", "jobinfo", "jobspec", "oob_get", "oob_list",
      "profile_stats", "purge", "results", "mapresults", "wait" }

\* C11, the naming: a run submits a specification whose prefix is the name
\* the handle had; on 'ok' the name becomes the assigned one, and on every
\* failure it is unchanged; a forwarded operation passes the current name
\* first, and no other attribute is forwarded
C11_Naming ==
    /\ hop = "run" =>
          /\ sent # NoBytes => dencode_loads(sent)["prefix"] = before
          /\ (sent # NoBytes /\ reply.status = "ok") =>
                /\ name = reply.response
                /\ herr = "none"
          /\ (sent = NoBytes \/ reply.status # "ok") =>
                /\ name = before
                /\ herr # "none"
    /\ hop = "call" =>
          /\ name = before
          /\ attr \in ForwardedOperations => call = << attr, name >>
          /\ attr \notin ForwardedOperations => call = NoCall

\* C11: the naming, and a reply other than 'ok' makes run fail with a
\* submission error (the DiscoError of line 561, carrying the reply)
C11_HandleNaming ==
    /\ C11_Naming
    /\ (hop = "run" /\ sent # NoBytes /\ reply.status # "ok") =>
          herr = "DiscoError: Failed to start a job. Server replied: invalid prefix"

\* the user handed one object to both specifications
UserShared ==
    \E key \in DOMAIN refs["A"] \cap DOMAIN refs["B"] :
        /\ refs["A"][key] = refs["B"][key]
        /\ refs["A"][key] = UserSharedParams

\* C13: two specifications constructed without sharing a user-supplied
\* value share no state: an operation on one (a change of its params bag,
\* of its scheduler, of its required_files, or its packing) leaves every
\* field value read from the other, and the bytes packed from the other, as
\* they were before the operation
C13_NoSharedState ==
    (actor # "none" /\ seen # NoView /\ ~UserShared) => Observed(Other(actor)) = seen

====
